---- MODULE Spec2Model ----
(***************************************************************************)
(* News article evaluation service (app/evaluator.py, app/main.py,         *)
(* app/news_api_client.py).                                                *)
(*                                                                         *)
(* Numbers.  Metric scores are fixed-point hundredths (0.70 is 70), the    *)
(* weighted sum and overall_score are ten-thousandths (0.7 is 7000), and   *)
(* confidence_score is hundredths; quotients and the square root are       *)
(* truncated to that resolution.  Article content is represented by its    *)
(* length in characters: the code looks only at emptiness and at the       *)
(* first 512 characters.                                                   *)
(***************************************************************************)
EXTENDS Integers, Sequences, FiniteSets

(***************************************************************************)
(* Bounds of the model.                                                    *)
(***************************************************************************)
MaxEvals == 2
MaxArticles == 2

(***************************************************************************)
(* Program constants.                                                      *)
(***************************************************************************)
MIN_NAMED_ENTITIES == 5
WORTHY_THRESHOLD == 7000
W_named_entities == 20
W_fact_density == 20
W_novelty == 15
W_analytical_depth == 20
W_readability == 10
W_topic_relevance == 10
W_sentiment == 5
SENTIMENT_MAX_CHARS == 512

Min(a, b) == IF a <= b THEN a ELSE b
Max(a, b) == IF a >= b THEN a ELSE b
Abs(a) == IF a < 0 THEN 0 - a ELSE a

RECURSIVE SqrtBetween(_, _, _)
\* lo * lo <= n < hi * hi
SqrtBetween(n, lo, hi) ==
    IF hi - lo <= 1 THEN lo
    ELSE LET mid == (lo + hi) \div 2
         IN  IF mid * mid <= n THEN SqrtBetween(n, mid, hi)
                               ELSE SqrtBetween(n, lo, mid)
\* floor of the square root, for n below 40001 * 40001
ISqrt(n) == SqrtBetween(n, 0, Min(n, 40000) + 1)

RECURSIVE SeqSum(_)
SeqSum(s) == IF s = <<>> THEN 0 ELSE Head(s) + SeqSum(Tail(s))

RECURSIVE SeqMax(_)
SeqMax(s) == IF Len(s) = 1 THEN Head(s) ELSE Max(Head(s), SeqMax(Tail(s)))

NoveltyLabels == <<"breaking news", "common knowledge", "analysis", "opinion">>

(***************************************************************************)
(* Pure metric formulas of _calculate_metrics, over a document analysis    *)
(* d = [ents, tokens, indicators, sents, words].                           *)
(***************************************************************************)
fact_density(d) == (d.ents * 100) \div (d.tokens + 1)

calculate_analytical_depth(d) == Min(100, d.indicators * 10)

calculate_readability_score(d) ==
    LET sentences == Max(1, d.sents)
    IN  100 - Min(100, (100 * (d.words - 10 * sentences)) \div (30 * sentences))

\* scores[0] * 0.7 + scores[2] * 0.3 over the provider's returned scores
novelty_of(result) == (result.scores[1] * 70 + result.scores[3] * 30) \div 100

topic_relevance_of(result) == SeqMax(result.scores)

ContentMetrics(d, novelty, topic, sentiment) ==
    [named_entities_count   |-> d.ents,
     fact_density_score     |-> fact_density(d),
     novelty_score          |-> novelty,
     analytical_depth_score |-> calculate_analytical_depth(d),
     readability_score      |-> calculate_readability_score(d),
     topic_relevance_score  |-> topic,
     sentiment_score        |-> sentiment]

(***************************************************************************)
(* Score Aggregator.                                                       *)
(***************************************************************************)
WeightedSum(m) ==
    W_named_entities * Min(100, m.named_entities_count * 5)
    + W_fact_density * m.fact_density_score
    + W_novelty * m.novelty_score
    + W_analytical_depth * m.analytical_depth_score
    + W_readability * m.readability_score
    + W_topic_relevance * m.topic_relevance_score
    + W_sentiment * Abs(m.sentiment_score)

\* variant: the weighted sum returned without the final clamp
calculate_overall_score_unclamped(m) == WeightedSum(m)

calculate_overall_score(m) == Min(10000, Max(0, WeightedSum(m)))

\* variant: strict comparison with the threshold
is_worthy_strict(overall_score) == overall_score > WORTHY_THRESHOLD

is_worthy_of(overall_score) == overall_score >= WORTHY_THRESHOLD

\* 16 times the population variance of four scores:
\* 4 * sum(x^2) - (sum x)^2
Variance16(scores) ==
    4 * SeqSum([i \in 1..Len(scores) |-> scores[i] * scores[i]])
    - SeqSum(scores) * SeqSum(scores)

\* variant: readability taken in place of topic relevance
calculate_confidence_score_all(m) ==
    100 - ISqrt(Variance16(<<m.fact_density_score, m.novelty_score,
                             m.analytical_depth_score,
                             m.readability_score>>) \div 16)

\* 1.0 - np.std(scores), the deviation truncated to hundredths
calculate_confidence_score(m) ==
    100 - ISqrt(Variance16(<<m.fact_density_score, m.novelty_score,
                             m.analytical_depth_score,
                             m.topic_relevance_score>>) \div 16)

(***************************************************************************)
(* Reason Generator.                                                       *)
(***************************************************************************)
R_ENTITIES == "Low number of named entities"
R_FACT_HIGH == "High fact density"
R_FACT_LOW == "Low fact density"
R_NOVELTY_HIGH == "High novelty content"
R_NOVELTY_LOW == "Low novelty content"
R_DEPTH_HIGH == "Strong analytical depth"
R_DEPTH_LOW == "Lacks analytical depth"
R_MEETS == "Meets overall quality threshold for further analysis"

HighLow(score, high, low) ==
    IF score > 70 THEN <<high>> ELSE IF score < 30 THEN <<low>> ELSE <<>>

\* variant: the novelty rule placed before the fact-density rule
generate_evaluation_reasons_swapped(m, overall_score) ==
    (IF m.named_entities_count < MIN_NAMED_ENTITIES THEN <<R_ENTITIES>> ELSE <<>>)
    \o HighLow(m.novelty_score, R_NOVELTY_HIGH, R_NOVELTY_LOW)
    \o HighLow(m.fact_density_score, R_FACT_HIGH, R_FACT_LOW)
    \o HighLow(m.analytical_depth_score, R_DEPTH_HIGH, R_DEPTH_LOW)
    \o (IF overall_score >= WORTHY_THRESHOLD THEN <<R_MEETS>> ELSE <<>>)

generate_evaluation_reasons(m, overall_score) ==
    (IF m.named_entities_count < MIN_NAMED_ENTITIES THEN <<R_ENTITIES>> ELSE <<>>)
    \o HighLow(m.fact_density_score, R_FACT_HIGH, R_FACT_LOW)
    \o HighLow(m.novelty_score, R_NOVELTY_HIGH, R_NOVELTY_LOW)
    \o HighLow(m.analytical_depth_score, R_DEPTH_HIGH, R_DEPTH_LOW)
    \o (IF overall_score >= WORTHY_THRESHOLD THEN <<R_MEETS>> ELSE <<>>)


(***************************************************************************)
(* Values of the model.                                                    *)
(***************************************************************************)
NoArticle == [none |-> "article"]
NoDoc == [none |-> "doc"]
NoMetrics == [none |-> "metrics"]
NoEvaluation == [none |-> "evaluation"]
NoException == [none |-> "exception"]
NoResponse == [none |-> "response"]
NoResult == [none |-> "result"]

\* what the document analysis provider (spaCy) may return
DocEmpty == [ents |-> 0, tokens |-> 0, indicators |-> 0, sents |-> 0, words |-> 0]
DocPlain == [ents |-> 2, tokens |-> 50, indicators |-> 0, sents |-> 3, words |-> 45]
DocRich == [ents |-> 20, tokens |-> 20, indicators |-> 10, sents |-> 2, words |-> 20]
DocResults == {DocEmpty, DocPlain, DocRich}
FetchDocResults == {DocPlain, DocRich}

\* scores a classifier may return (hundredths)
ZsScores == {10, 60}
FetchZsScores == {60}
SentimentScores == {0 - 80, 10}
FetchSentimentScores == {10}

Perms(n) == {p \in [1..n -> 1..n] : \A i, j \in 1..n : i # j => p[i] # p[j]}

\* zero_shot_classifier(text, labels): the candidate labels in some order,
\* each with its score
ZeroShot(labels, Scores) ==
    LET n == Len(labels)
    IN  {[labels |-> [i \in 1..n |-> labels[p[i]]],
          scores |-> [i \in 1..n |-> s[p[i]]]] :
            p \in Perms(n), s \in [1..n -> Scores]}

ProviderError(provider) == [type |-> "ProviderError", provider |-> provider]

Call(provider, text, labels, ok) ==
    [provider |-> provider, text |-> text, labels |-> labels, ok |-> ok]

\* requests of POST /evaluate: content length and declared categories
Contents == {0, 600}
CategoryLists == {<<>>, <<"technology">>, <<"technology", "politics">>}
Articles == {[content |-> c, categories |-> k] : c \in Contents, k \in CategoryLists}

VARIABLES
    handler,             \* the request handler running: none, evaluate_article, fetch_and_evaluate
    pc,                  \* position inside the handler / inside evaluate
    article,             \* evaluate's argument
    doc,                 \* evaluate: self.nlp(article.content)
    novelty_score,       \* _calculate_metrics local, -1 before it is set
    topic_relevance,     \* _calculate_metrics local, -1 before it is set
    metrics,             \* the ContentMetrics built by _calculate_metrics
    evaluation,          \* the ArticleEvaluation evaluate returns
    exc,                 \* the exception propagating out of evaluate / fetch_articles
    response,            \* the handler's HTTP response
    zs_result,           \* the zero-shot response the last metric step received
    calls,               \* provider calls issued by the running evaluate, in order
    issued,              \* identifiers uuid4 has produced
    returned,            \* (article_id, content) of every evaluation returned so far
    prev,                \* the evaluation returned before the current one
    started,             \* evaluate calls started
    articles,            \* fetch_and_evaluate: the fetched list
    idx,                 \* fetch_and_evaluate: loop position (articles evaluated so far)
    evaluated_articles,  \* fetch_and_evaluate: the worthy results
    eval_log             \* fetch_and_evaluate: every (article, evaluation) evaluate returned

vars == <<handler, pc, article, doc, novelty_score, topic_relevance, metrics,
          evaluation, exc, response, zs_result, calls, issued, returned, prev,
          started, articles, idx, evaluated_articles, eval_log>>

fetchVars == <<articles, idx, evaluated_articles, eval_log>>

(***************************************************************************)
(* ArticleEvaluator.evaluate, one action per provider call.                *)
(***************************************************************************)
\* the state of a call evaluate(a) at its first line
EnterEvaluate(a) ==
    /\ article' = a
    /\ pc' = "nlp"
    /\ doc' = NoDoc
    /\ novelty_score' = 0 - 1
    /\ topic_relevance' = 0 - 1
    /\ metrics' = NoMetrics
    /\ evaluation' = NoEvaluation
    /\ exc' = NoException
    /\ zs_result' = NoResult
    /\ calls' = <<>>
    /\ started' = started + 1

\* a provider call raised: nothing in evaluate catches it
Raise(provider, text, labels) ==
    /\ calls' = Append(calls, Call(provider, text, labels, FALSE))
    /\ exc' = ProviderError(provider)
    /\ pc' = "raised"

\* doc = self.nlp(article.content)
nlp_call(Docs) ==
    /\ pc = "nlp"
    /\ \/ /\ \E d \in Docs : doc' = d
          /\ calls' = Append(calls, Call("nlp", article.content, <<>>, TRUE))
          /\ pc' = "novelty"
          /\ exc' = exc
       \/ /\ Raise("nlp", article.content, <<>>)
          /\ doc' = doc
    /\ UNCHANGED <<handler, article, novelty_score, topic_relevance, metrics,
                   evaluation, response, zs_result, issued, returned, prev,
                   started, fetchVars>>

\* novelty_score = await self._analyze_novelty(article.content)
analyze_novelty(Scores) ==
    /\ pc = "novelty"
    /\ \/ /\ \E result \in ZeroShot(NoveltyLabels, Scores) :
                /\ zs_result' = result
                /\ novelty_score' = novelty_of(result)
          /\ calls' = Append(calls, Call("zero_shot", article.content, NoveltyLabels, TRUE))
          /\ pc' = "topic"
          /\ exc' = exc
       \/ /\ Raise("zero_shot", article.content, NoveltyLabels)
          /\ UNCHANGED <<zs_result, novelty_score>>
    /\ UNCHANGED <<handler, article, doc, topic_relevance, metrics, evaluation,
                   response, issued, returned, prev, started, fetchVars>>

\* variant: the minimum of the returned scores
analyze_topic_relevance_min(Scores) ==
    /\ pc = "topic"
    /\ \/ /\ article.categories = <<>>
          /\ topic_relevance' = 50
          /\ zs_result' = NoResult
          /\ pc' = "sentiment"
          /\ UNCHANGED <<calls, exc>>
       \/ /\ article.categories # <<>>
          /\ \E result \in ZeroShot(article.categories, Scores) :
                /\ zs_result' = result
                /\ topic_relevance' = 0 - SeqMax([i \in 1..Len(result.scores) |->
                                                    0 - result.scores[i]])
          /\ calls' = Append(calls, Call("zero_shot", article.content,
                                         article.categories, TRUE))
          /\ pc' = "sentiment"
          /\ exc' = exc
       \/ /\ article.categories # <<>>
          /\ Raise("zero_shot", article.content, article.categories)
          /\ UNCHANGED <<zs_result, topic_relevance>>
    /\ UNCHANGED <<handler, article, doc, novelty_score, metrics, evaluation,
                   response, issued, returned, prev, started, fetchVars>>

\* topic_relevance = await self._analyze_topic_relevance(article)
analyze_topic_relevance(Scores) ==
    /\ pc = "topic"
    /\ \/ /\ article.categories = <<>>
          /\ topic_relevance' = 50
          /\ zs_result' = NoResult
          /\ pc' = "sentiment"
          /\ UNCHANGED <<calls, exc>>
       \/ /\ article.categories # <<>>
          /\ \E result \in ZeroShot(article.categories, Scores) :
                /\ zs_result' = result
                /\ topic_relevance' = topic_relevance_of(result)
          /\ calls' = Append(calls, Call("zero_shot", article.content,
                                         article.categories, TRUE))
          /\ pc' = "sentiment"
          /\ exc' = exc
       \/ /\ article.categories # <<>>
          /\ Raise("zero_shot", article.content, article.categories)
          /\ UNCHANGED <<zs_result, topic_relevance>>
    /\ UNCHANGED <<handler, article, doc, novelty_score, metrics, evaluation,
                   response, issued, returned, prev, started, fetchVars>>

\* variant: a failed sentiment call replaced by the default score 0
analyze_sentiment_defaulting(Scores) ==
    /\ pc = "sentiment"
    /\ LET text == Min(article.content, SENTIMENT_MAX_CHARS)
       IN  \/ /\ \E s \in Scores :
                    metrics' = ContentMetrics(doc, novelty_score, topic_relevance, s)
              /\ calls' = Append(calls, Call("sentiment", text, <<>>, TRUE))
           \/ /\ metrics' = ContentMetrics(doc, novelty_score, topic_relevance, 0)
              /\ calls' = Append(calls, Call("sentiment", text, <<>>, FALSE))
    /\ pc' = "score"
    /\ UNCHANGED <<handler, article, doc, novelty_score, topic_relevance, exc,
                   evaluation, response, zs_result, issued, returned, prev,
                   started, fetchVars>>

\* sentiment = self._analyze_sentiment(article.content); return ContentMetrics(...)
analyze_sentiment(Scores) ==
    /\ pc = "sentiment"
    /\ LET text == Min(article.content, SENTIMENT_MAX_CHARS)
       IN  \/ /\ \E s \in Scores :
                    metrics' = ContentMetrics(doc, novelty_score, topic_relevance, s)
              /\ calls' = Append(calls, Call("sentiment", text, <<>>, TRUE))
              /\ pc' = "score"
              /\ exc' = exc
           \/ /\ Raise("sentiment", text, <<>>)
              /\ metrics' = metrics
    /\ UNCHANGED <<handler, article, doc, novelty_score, topic_relevance,
                   evaluation, response, zs_result, issued, returned, prev,
                   started, fetchVars>>

\* variant: an identifier derived from the article content
uuid4_from_article == {1 + (article.content % 2)}

\* uuid.uuid4(): a value no earlier call produced
uuid4 == {id \in 1..(Cardinality(issued) + 2) : id \notin issued}

ArticleEvaluation(id, m) ==
    LET overall_score == calculate_overall_score(m)
    IN  [article_id       |-> id,
         overall_score    |-> overall_score,
         is_worthy        |-> is_worthy_of(overall_score),
         metrics          |-> m,
         confidence_score |-> calculate_confidence_score(m),
         reasons          |-> generate_evaluation_reasons(m, overall_score)]

\* evaluate, from "overall_score = ..." to the return
Assemble ==
    /\ pc = "score"
    /\ \E id \in uuid4 :
          /\ evaluation' = ArticleEvaluation(id, metrics)
          /\ issued' = issued \cup {id}
          /\ returned' = Append(returned, [article_id |-> id,
                                            content |-> IF article = NoArticle
                                                        THEN 0 - 1
                                                        ELSE article.content])
    /\ pc' = "returned"
    /\ UNCHANGED <<handler, article, doc, novelty_score, topic_relevance, metrics,
                   exc, response, zs_result, calls, prev, started, fetchVars>>


(***************************************************************************)
(* The aggregation half of evaluate applied to arbitrary ContentMetrics    *)
(* records, in range and out of range.                                     *)
(***************************************************************************)
MetricsGrid ==
    {[named_entities_count   |-> n,
      fact_density_score     |-> f,
      novelty_score          |-> v,
      analytical_depth_score |-> a,
      readability_score      |-> rs[1],
      topic_relevance_score  |-> t,
      sentiment_score        |-> rs[2]] :
        n \in {3, 40}, f \in {20, 500}, v \in {10, 80}, a \in {0, 100},
        t \in {50, 90}, rs \in {<<0 - 300, 0 - 90>>, <<100, 10>>}}

\* records on the thresholds of the reason rules and of worthiness
MetricsEdge ==
    [named_entities_count   : {5, 20},
     fact_density_score     : {30, 70},
     novelty_score          : {29, 80},
     analytical_depth_score : {70},
     readability_score      : {50},
     topic_relevance_score  : {49, 50},
     sentiment_score        : {0, 1}]

MetricsDomain == MetricsGrid \cup MetricsEdge

InitAgg ==
    /\ handler = "none"
    /\ pc = "score"
    /\ article = NoArticle
    /\ doc = NoDoc
    /\ novelty_score = 0 - 1
    /\ topic_relevance = 0 - 1
    /\ metrics \in MetricsDomain
    /\ evaluation = NoEvaluation
    /\ exc = NoException
    /\ response = NoResponse
    /\ zs_result = NoResult
    /\ calls = <<>>
    /\ issued = {}
    /\ returned = <<>>
    /\ prev = NoEvaluation
    /\ started = 1
    /\ articles = <<>>
    /\ idx = 0
    /\ evaluated_articles = <<>>
    /\ eval_log = <<>>

\* the next call reaches "overall_score = ..." with another metrics record
NextMetrics ==
    /\ pc = "returned"
    /\ started < MaxEvals
    /\ \E m \in MetricsDomain : metrics' = m
    /\ prev' = evaluation
    /\ evaluation' = NoEvaluation
    /\ pc' = "score"
    /\ started' = started + 1
    /\ UNCHANGED <<handler, article, doc, novelty_score, topic_relevance, exc,
                   response, zs_result, calls, issued, returned, fetchVars>>

NextAgg == Assemble \/ NextMetrics

SpecAgg == InitAgg /\ [][NextAgg]_vars

\* the evaluations in the state: the one just returned and the one before it
Evaluations == {e \in {evaluation, prev} : e # NoEvaluation}

\* C1: every overall_score stored in an ArticleEvaluation lies in [0, 1],
\* whatever the metrics (fact density 5.0, readability -3.0 included).
C1_OverallScoreInUnitInterval ==
    \A e \in Evaluations : 0 <= e.overall_score /\ e.overall_score <= 10000

\* C1 witness: the claim's out-of-range record was evaluated, after a record
\* whose weighted sum is negative.
C1_Witness ==
    /\ evaluation # NoEvaluation /\ prev # NoEvaluation
    /\ evaluation.metrics.fact_density_score = 500
    /\ evaluation.metrics.readability_score = 0 - 300
    /\ WeightedSum(evaluation.metrics) > 10000
    /\ WeightedSum(prev.metrics) < 0

\* C2: is_worthy is true exactly when the stored overall_score is >= 0.7.
C2_WorthyIffThreshold ==
    \A e \in Evaluations : e.is_worthy <=> (e.overall_score >= 7000)

\* C2 witness: an evaluation exactly on the threshold (worthy) after one
\* just below it (not worthy).
C2_Witness ==
    /\ evaluation # NoEvaluation /\ prev # NoEvaluation
    /\ evaluation.overall_score = 7000 /\ evaluation.is_worthy
    /\ prev.overall_score = 6995 /\ ~prev.is_worthy

ReasonRank(r) ==
    CASE r = "Low number of named entities" -> 1
      [] r \in {"High fact density", "Low fact density"} -> 2
      [] r \in {"High novelty content", "Low novelty content"} -> 3
      [] r \in {"Strong analytical depth", "Lacks analytical depth"} -> 4
      [] r = "Meets overall quality threshold for further analysis" -> 5
      [] OTHER -> 0

InReasons(e, r) == \E i \in 1..Len(e.reasons) : e.reasons[i] = r

\* C7: the reasons are in the fixed order (one string per rule at most, so the
\* High and Low variants never both appear), each rule appends its string
\* exactly when its threshold condition holds, and the same input gives the
\* same sequence.
C7_ReasonsOrderedAndComplete ==
    /\ \A e \in Evaluations :
          /\ \A i \in 1..Len(e.reasons) : ReasonRank(e.reasons[i]) > 0
          /\ \A i, j \in 1..Len(e.reasons) :
                i < j => ReasonRank(e.reasons[i]) < ReasonRank(e.reasons[j])
          /\ InReasons(e, "Low number of named entities")
                <=> e.metrics.named_entities_count < 5
          /\ InReasons(e, "High fact density") <=> e.metrics.fact_density_score > 70
          /\ InReasons(e, "Low fact density") <=> e.metrics.fact_density_score < 30
          /\ InReasons(e, "High novelty content") <=> e.metrics.novelty_score > 70
          /\ InReasons(e, "Low novelty content") <=> e.metrics.novelty_score < 30
          /\ InReasons(e, "Strong analytical depth")
                <=> e.metrics.analytical_depth_score > 70
          /\ InReasons(e, "Lacks analytical depth")
                <=> e.metrics.analytical_depth_score < 30
          /\ InReasons(e, "Meets overall quality threshold for further analysis")
                <=> e.overall_score >= 7000
    /\ \A e1, e2 \in Evaluations :
          (e1.metrics = e2.metrics /\ e1.overall_score = e2.overall_score)
             => e1.reasons = e2.reasons

\* C7 witness: all five rules fired, on a record evaluated twice.
C7_Witness ==
    /\ evaluation # NoEvaluation /\ prev # NoEvaluation
    /\ prev.metrics = evaluation.metrics
    /\ evaluation.reasons =
          <<"Low number of named entities", "High fact density",
            "High novelty content", "Strong analytical depth",
            "Meets overall quality threshold for further analysis">>

\* 64 * (population variance) of four values
FourVariance64(a, b, c, d) ==
    LET S == a + b + c + d
    IN  (4 * a - S) * (4 * a - S) + (4 * b - S) * (4 * b - S)
        + (4 * c - S) * (4 * c - S) + (4 * d - S) * (4 * d - S)

\* C8: confidence_score is 1 minus the population standard deviation of
\* fact_density, novelty, analytical_depth and topic_relevance (here to the
\* hundredth), unclamped; two records that agree on these four fields get
\* the same confidence_score.
C8_ConfidenceOfFourMetrics ==
    /\ \A e \in Evaluations :
          LET dev == 100 - e.confidence_score
              V == FourVariance64(e.metrics.fact_density_score,
                                  e.metrics.novelty_score,
                                  e.metrics.analytical_depth_score,
                                  e.metrics.topic_relevance_score)
          IN  dev >= 0 /\ 64 * dev * dev <= V /\ V < 64 * (dev + 1) * (dev + 1)
    /\ \A e1, e2 \in Evaluations :
          (/\ e1.metrics.fact_density_score = e2.metrics.fact_density_score
           /\ e1.metrics.novelty_score = e2.metrics.novelty_score
           /\ e1.metrics.analytical_depth_score = e2.metrics.analytical_depth_score
           /\ e1.metrics.topic_relevance_score = e2.metrics.topic_relevance_score)
             => e1.confidence_score = e2.confidence_score

\* C8 witness: two records that agree on the four metrics and differ in the
\* other three, with a confidence below 0.
C8_Witness ==
    /\ evaluation # NoEvaluation /\ prev # NoEvaluation
    /\ evaluation.metrics.fact_density_score = prev.metrics.fact_density_score
    /\ evaluation.metrics.novelty_score = prev.metrics.novelty_score
    /\ evaluation.metrics.analytical_depth_score = prev.metrics.analytical_depth_score
    /\ evaluation.metrics.topic_relevance_score = prev.metrics.topic_relevance_score
    /\ evaluation.metrics.named_entities_count # prev.metrics.named_entities_count
    /\ evaluation.metrics.readability_score # prev.metrics.readability_score
    /\ evaluation.metrics.sentiment_score # prev.metrics.sentiment_score
    /\ evaluation.confidence_score < 0


(***************************************************************************)
(* POST /evaluate (main.py, evaluate_article) on the shared evaluator.     *)
(* evaluate has no suspension point of its own (the providers are called   *)
(* synchronously), so on the event loop one evaluate call runs at a time.  *)
(***************************************************************************)
Init ==
    /\ handler = "none"
    /\ pc = "idle"
    /\ article = NoArticle
    /\ doc = NoDoc
    /\ novelty_score = 0 - 1
    /\ topic_relevance = 0 - 1
    /\ metrics = NoMetrics
    /\ evaluation = NoEvaluation
    /\ exc = NoException
    /\ response = NoResponse
    /\ zs_result = NoResult
    /\ calls = <<>>
    /\ issued = {}
    /\ returned = <<>>
    /\ prev = NoEvaluation
    /\ started = 0
    /\ articles = <<>>
    /\ idx = 0
    /\ evaluated_articles = <<>>
    /\ eval_log = <<>>

\* article_obj = Article(...); evaluation = await evaluator.evaluate(article_obj)
EvaluateArticleRequest ==
    /\ handler = "none"
    /\ started < MaxEvals
    /\ \E a \in Articles : EnterEvaluate(a)
    /\ handler' = "evaluate_article"
    /\ response' = NoResponse
    /\ UNCHANGED <<issued, returned, prev, fetchVars>>

\* return evaluation
EvaluateArticleReturn ==
    /\ handler = "evaluate_article"
    /\ pc = "returned"
    /\ response' = [status |-> 200, body |-> evaluation]
    /\ handler' = "none"
    /\ pc' = "idle"
    /\ UNCHANGED <<article, doc, novelty_score, topic_relevance, metrics,
                   evaluation, exc, zs_result, calls, issued, returned, prev,
                   started, fetchVars>>

\* except Exception as e: raise HTTPException(status_code=500, detail=str(e))
EvaluateArticleExcept ==
    /\ handler = "evaluate_article"
    /\ pc = "raised"
    /\ response' = [status |-> 500, detail |-> exc]
    /\ handler' = "none"
    /\ pc' = "idle"
    /\ UNCHANGED <<article, doc, novelty_score, topic_relevance, metrics,
                   evaluation, exc, zs_result, calls, issued, returned, prev,
                   started, fetchVars>>

NlpCall == nlp_call(DocResults)
AnalyzeNovelty == analyze_novelty(ZsScores)
AnalyzeTopicRelevance == analyze_topic_relevance(ZsScores)
AnalyzeSentiment == analyze_sentiment(SentimentScores)

Next ==
    \/ EvaluateArticleRequest
    \/ NlpCall
    \/ AnalyzeNovelty
    \/ AnalyzeTopicRelevance
    \/ AnalyzeSentiment
    \/ Assemble
    \/ EvaluateArticleReturn
    \/ EvaluateArticleExcept

Spec == Init /\ [][Next]_vars

FailedCalls == {i \in 1..Len(calls) : ~calls[i].ok}

\* evaluate has ended: it returned or raised (and the handler may have answered)
EvaluateEnded == article # NoArticle /\ pc \in {"returned", "raised", "idle"}

C4_EmptyContentCallsNoProvider ==
    (article # NoArticle /\ article.content = 0) =>
        (calls = <<>> /\ evaluation = NoEvaluation)

ScoreOfLabel(result, label) ==
    LET i == CHOOSE k \in 1..Len(result.labels) : result.labels[k] = label
    IN  result.scores[i]

\* C5 as stated: novelty_score is 0.7 * score("breaking news") +
\* 0.3 * score("analysis"), by label, for every order of the returned pairs.
C5_NoveltyMatchedByLabel ==
    (pc = "topic" /\ zs_result # NoResult) =>
        novelty_score = (70 * ScoreOfLabel(zs_result, "breaking news")
                         + 30 * ScoreOfLabel(zs_result, "analysis")) \div 100

ZeroShotCallsFor(labels) ==
    {i \in 1..Len(calls) : calls[i].provider = "zero_shot" /\ calls[i].labels = labels}

IsMaxOf(t, scores) ==
    /\ \E i \in 1..Len(scores) : scores[i] = t
    /\ \A i \in 1..Len(scores) : scores[i] <= t

\* C6: with no categories topic_relevance_score is exactly 0.5 and the only
\* zero-shot call of the evaluation is the novelty one; with categories the
\* classifier is called once on the article's own labels and the score is the
\* maximum of the scores it returned.
C6_TopicRelevance ==
    /\ (article # NoArticle /\ topic_relevance >= 0 /\ article.categories = <<>>) =>
          /\ topic_relevance = 50
          /\ {i \in 1..Len(calls) : calls[i].provider = "zero_shot"}
                = ZeroShotCallsFor(NoveltyLabels)
          /\ Cardinality(ZeroShotCallsFor(NoveltyLabels)) = 1
    /\ (article # NoArticle /\ topic_relevance >= 0 /\ article.categories # <<>>) =>
          /\ Cardinality(ZeroShotCallsFor(article.categories)) = 1
          /\ \A i \in ZeroShotCallsFor(article.categories) :
                calls[i].text = article.content
          /\ pc = "sentiment" =>
                /\ zs_result # NoResult
                /\ IsMaxOf(topic_relevance, zs_result.scores)
                /\ Len(zs_result.labels) = Len(article.categories)
                /\ \A k \in 1..Len(article.categories) :
                      \E i \in 1..Len(zs_result.labels) :
                         zs_result.labels[i] = article.categories[k]
    /\ metrics # NoMetrics => metrics.topic_relevance_score = topic_relevance
    /\ (pc # "score" /\ evaluation # NoEvaluation) =>
          evaluation.metrics.topic_relevance_score = topic_relevance

\* C6 witness: an article with content and no categories was evaluated, and
\* its evaluation carries topic relevance 0.5.
C6_Witness ==
    /\ evaluation # NoEvaluation
    /\ article.content > 0 /\ article.categories = <<>>
    /\ evaluation.metrics.topic_relevance_score = 50
    /\ Len(calls) = 3

\* C9: any two evaluations returned by the shared evaluator carry distinct
\* identifiers, also when they are of the same article.
C9_DistinctIdentifiers ==
    /\ \A i, j \in 1..Len(returned) :
          i # j => returned[i].article_id # returned[j].article_id
    /\ (pc \in {"returned", "idle"} /\ evaluation # NoEvaluation) =>
          returned[Len(returned)].article_id = evaluation.article_id

\* C9 witness: the same article was evaluated twice.
C9_Witness ==
    /\ Len(returned) = MaxEvals
    /\ returned[1].content = returned[2].content
    /\ pc = "idle"


(***************************************************************************)
(* POST /fetch-and-evaluate (main.py, fetch_and_evaluate_articles) with    *)
(* NewsAPIClient.fetch_articles and _process_articles.                     *)
(***************************************************************************)
\* raw articles of the API response: body is -1 when the key is absent, a
\* label is "" when the category has none, dateTime says whether the key holds
\* a date
RawTagged == [body |-> 300, labels |-> <<"technology", "">>, dateTime |-> TRUE]
RawBare == [body |-> 0 - 1, labels |-> <<>>, dateTime |-> TRUE]
RawUndated == [body |-> 600, labels |-> <<"politics">>, dateTime |-> FALSE]
RawArticles == {RawTagged, RawBare, RawUndated}

ApiResponses == UNION {[1..n -> RawArticles] : n \in 0..MaxArticles}

IsLabel(label) == label # ""

\* one processed_article of _process_articles
ProcessedArticle(raw) ==
    [content    |-> IF raw.body < 0 THEN 0 ELSE raw.body,
     categories |-> SelectSeq(raw.labels, IsLabel)]

process_articles(api_response) ==
    [i \in 1..Len(api_response) |-> ProcessedArticle(api_response[i])]

\* parse(article.get("dateTime", "")) raises on a missing date
ProcessRaises(api_response) ==
    \E i \in 1..Len(api_response) : ~api_response[i].dateTime

FetchError == [type |-> "Exception", provider |-> "newsapi"]

\* the handler is entered and awaits news_client.fetch_articles(...)
FetchRequest ==
    /\ handler = "none"
    /\ started = 0
    /\ pc = "idle"
    /\ response = NoResponse
    /\ handler' = "fetch_and_evaluate"
    /\ pc' = "fetching"
    /\ UNCHANGED <<article, doc, novelty_score, topic_relevance, metrics,
                   evaluation, exc, response, zs_result, calls, issued, returned,
                   prev, started, fetchVars>>

\* fetch_articles: the request fails, or the response is processed
FetchArticles ==
    /\ handler = "fetch_and_evaluate"
    /\ pc = "fetching"
    /\ \/ /\ exc' = FetchError
          /\ pc' = "raised"
          /\ UNCHANGED fetchVars
       \/ \E api_response \in ApiResponses :
             IF ProcessRaises(api_response)
             THEN /\ exc' = FetchError
                  /\ pc' = "raised"
                  /\ UNCHANGED fetchVars
             ELSE /\ articles' = process_articles(api_response)
                  /\ idx' = 0
                  /\ evaluated_articles' = <<>>
                  /\ eval_log' = <<>>
                  /\ pc' = "loop"
                  /\ exc' = exc
    /\ UNCHANGED <<handler, article, doc, novelty_score, topic_relevance, metrics,
                   evaluation, response, zs_result, calls, issued, returned,
                   prev, started>>

\* for article_data in articles: article = Article(...); evaluator.evaluate(article)
LoopEvaluate ==
    /\ handler = "fetch_and_evaluate"
    /\ pc = "loop"
    /\ idx < Len(articles)
    /\ EnterEvaluate([content    |-> articles[idx + 1].content,
                      categories |-> articles[idx + 1].categories])
    /\ UNCHANGED <<handler, response, issued, returned, prev, fetchVars>>

\* variant: every evaluated article appended, worthy or not
LoopReturnAll ==
    /\ handler = "fetch_and_evaluate"
    /\ pc = "returned"
    /\ evaluated_articles' = Append(evaluated_articles,
                                    [article    |-> articles[idx + 1],
                                     evaluation |-> evaluation])
    /\ eval_log' = Append(eval_log, [index |-> idx + 1, article |-> article,
                                     evaluation |-> evaluation])
    /\ idx' = idx + 1
    /\ pc' = "loop"
    /\ UNCHANGED <<handler, article, doc, novelty_score, topic_relevance, metrics,
                   evaluation, exc, response, zs_result, calls, issued, returned,
                   prev, started, articles>>

\* evaluate returned: if evaluation.is_worthy: evaluated_articles.append(...)
LoopReturn ==
    /\ handler = "fetch_and_evaluate"
    /\ pc = "returned"
    /\ evaluated_articles' =
          IF evaluation.is_worthy
          THEN Append(evaluated_articles, [article    |-> articles[idx + 1],
                                           evaluation |-> evaluation])
          ELSE evaluated_articles
    /\ eval_log' = Append(eval_log, [index |-> idx + 1, article |-> article,
                                     evaluation |-> evaluation])
    /\ idx' = idx + 1
    /\ pc' = "loop"
    /\ UNCHANGED <<handler, article, doc, novelty_score, topic_relevance, metrics,
                   evaluation, exc, response, zs_result, calls, issued, returned,
                   prev, started, articles>>

\* return {"total_articles": ..., "worthy_articles": ..., "results": ...}
FetchReturn ==
    /\ handler = "fetch_and_evaluate"
    /\ pc = "loop"
    /\ idx = Len(articles)
    /\ response' = [status |-> 200,
                    body   |-> [total_articles  |-> Len(articles),
                                worthy_articles |-> Len(evaluated_articles),
                                results         |-> evaluated_articles]]
    /\ handler' = "none"
    /\ pc' = "idle"
    /\ UNCHANGED <<article, doc, novelty_score, topic_relevance, metrics,
                   evaluation, exc, zs_result, calls, issued, returned, prev,
                   started, fetchVars>>

\* except Exception as e: raise HTTPException(status_code=500, detail=str(e))
FetchExcept ==
    /\ handler = "fetch_and_evaluate"
    /\ pc = "raised"
    /\ response' = [status |-> 500, detail |-> exc]
    /\ handler' = "none"
    /\ pc' = "idle"
    /\ UNCHANGED <<article, doc, novelty_score, topic_relevance, metrics,
                   evaluation, exc, zs_result, calls, issued, returned, prev,
                   started, fetchVars>>

FetchNlpCall == nlp_call(FetchDocResults)
FetchAnalyzeNovelty == analyze_novelty(FetchZsScores)
FetchAnalyzeTopicRelevance == analyze_topic_relevance(FetchZsScores)
FetchAnalyzeSentiment == analyze_sentiment(FetchSentimentScores)

NextFetch ==
    \/ FetchRequest
    \/ FetchArticles
    \/ LoopEvaluate
    \/ FetchNlpCall
    \/ FetchAnalyzeNovelty
    \/ FetchAnalyzeTopicRelevance
    \/ FetchAnalyzeSentiment
    \/ Assemble
    \/ LoopReturn
    \/ FetchReturn
    \/ FetchExcept

SpecFetch == Init /\ [][NextFetch]_vars

IsWorthyEntry(entry) == entry.evaluation.is_worthy

\* the worthy entries of the log of evaluations, each with the fetched
\* article of its index
WorthyResults ==
    LET worthy == SelectSeq(eval_log, IsWorthyEntry)
    IN  [k \in 1..Len(worthy) |-> [article    |-> articles[worthy[k].index],
                                   evaluation |-> worthy[k].evaluation]]

\* C10: articles are evaluated one at a time in fetch order; a successful
\* request reports total_articles = N, results = the worthy articles in fetch
\* order each with its own evaluation, worthy_articles = Len(results) <= N;
\* a failed fetch or evaluation answers 500 with no results.
C10_FetchAndEvaluate ==
    /\ Len(eval_log) = idx
    /\ \A k \in 1..Len(eval_log) :
          /\ eval_log[k].index = k
          /\ eval_log[k].article.content = articles[k].content
          /\ eval_log[k].article.categories = articles[k].categories
    /\ (handler = "fetch_and_evaluate" /\ pc \in {"nlp", "novelty", "topic",
                                                   "sentiment", "score", "returned"}) =>
          /\ idx < Len(articles)
          /\ article.content = articles[idx + 1].content
    /\ (response # NoResponse /\ response.status = 200) =>
          /\ exc = NoException
          /\ idx = Len(articles)
          /\ response.body.total_articles = Len(articles)
          /\ response.body.results = WorthyResults
          /\ response.body.worthy_articles = Len(response.body.results)
          /\ response.body.worthy_articles <= response.body.total_articles
    /\ (exc # NoException /\ handler = "none") =>
          response = [status |-> 500, detail |-> exc]

\* C10 witness: of two fetched articles the first was found unworthy and the
\* second worthy, and the request answered 200.
C10_Witness ==
    /\ response # NoResponse /\ response.status = 200
    /\ response.body.total_articles = 2
    /\ response.body.worthy_articles = 1
    /\ ~eval_log[1].evaluation.is_worthy
    /\ response.body.results[1].article = articles[2]
    /\ response.body.results[1].evaluation = eval_log[2].evaluation

====
